---- MODULE Spec2Model ----
(***************************************************************************)
(* files-combine: the concurrent file-gathering pipeline of Gather         *)
(* (walkFiles -> processFile x N -> merge -> Gather's drain loop).          *)
(*                                                                         *)
(* A file name is a sequence of one-character strings, so that the         *)
(* hidden-name test, filepath.Ext and filepath.Match are computed on the   *)
(* characters.  A path is a sequence of names (the segments between the    *)
(* separators).                                                            *)
(***************************************************************************)
EXTENDS Integers, Sequences, FiniteSets, TLC

VARIABLES
  fs,          \* the directory tree on disk: [dirPath, gitignore, entries]
  opts,        \* GatherOptions
  numWorkers,  \* runtime.NumCPU()
  wpc,         \* walker goroutine: "load","walk","emit","closeErr","closeOut","done"
  pos,         \* index in fs.entries of the entry WalkDir visits next
  matcher,     \* compiled gitignore patterns (<<>> is the nil matcher)
  cand,        \* the FileInput the walker is blocked sending (wpc = "emit")
  errCh,       \* walkErrCh: buffered channel of capacity 1
  errClosed,   \* walkErrCh closed
  filesClosed, \* filesCh (walker's out) closed
  ppc,         \* processFile goroutine i: "recv","send","exited","cancelled"
  pres,        \* the FileResult worker i is blocked sending
  wClosed,     \* worker i's out channel closed
  fpc,         \* merge's output goroutine i: "recv","send","exited","cancelled"
  fres,        \* the FileResult forwarder i is blocked sending
  outClosed,   \* merge's out channel (resultsCh) closed
  gpc,         \* Gather: "recv","append","errwait","returned"
  grec,        \* the FileResult Gather just received
  results,     \* Gather's results slice
  retErr,      \* Gather's returned error
  done,        \* the done channel is closed
  emitted,     \* history: candidates sent on filesCh, in order
  got,         \* history: candidates worker i received, in order
  mergeIn,     \* history: records merge's goroutines received from workers
  merged,      \* history: records delivered on resultsCh
  cancelAt,    \* history: Len(emitted) when the caller closed done, -1 if it did not
  errSent,     \* history: the errors sent on walkErrCh, in order
  cresults,    \* Combine: the results slice it was called with
  copts,       \* Combine: CombineOpts
  cpc,         \* Combine: "idle","create","xmlopen","xml","markdown","returned"
  ci,          \* Combine: index in cresults of the record the loop takes next
  index,       \* combineAsXML: the index variable
  file,        \* the output file: the writes made to it, in order
  cerr         \* Combine's returned error

vars == <<fs, opts, numWorkers, wpc, pos, matcher, cand, errCh, errClosed,
          filesClosed, ppc, pres, wClosed, fpc, fres, outClosed, gpc, grec,
          results, retErr, done, emitted, got, mergeIn, merged, cancelAt,
          errSent, cresults, copts, cpc, ci, index, file, cerr>>

\* Largest worker count explored (runtime.NumCPU() ranges over 1..MaxWorkers).
MaxWorkers == 2

----------------------------------------------------------------------------
(* Strings *)

\* An error is the chain of its messages, outermost first; nil is empty.
NoErr == <<>>

\* fmt.Errorf("msg: %w", err)
Wrap(msg, err) == <<msg>> \o err

HasPrefix(s, p) == Len(s) >= Len(p) /\ SubSeq(s, 1, Len(p)) = p

HasSuffix(s, p) == Len(s) >= Len(p) /\ SubSeq(s, Len(s) - Len(p) + 1, Len(s)) = p

Last(s) == s[Len(s)]

\* strings.TrimSpace
RECURSIVE TrimLeft(_)
TrimLeft(s) == IF s # <<>> /\ Head(s) = " " THEN TrimLeft(Tail(s)) ELSE s

RECURSIVE TrimRight(_)
TrimRight(s) ==
  IF s # <<>> /\ Last(s) = " " THEN TrimRight(SubSeq(s, 1, Len(s) - 1)) ELSE s

TrimSpace(s) == TrimRight(TrimLeft(s))

\* filepath.Ext: the suffix starting at the last dot of the name, "" without one.
Ext(name) ==
  LET dots == {i \in 1..Len(name) : name[i] = "."}
  IN  IF dots = {} THEN <<>>
      ELSE LET i == CHOOSE d \in dots : \A e \in dots : e <= d
           IN  SubSeq(name, i, Len(name))

\* filepath.Match restricted to literals, '?' and '*'.  A pattern holding '['
\* is malformed in every input of this model (no closing bracket): Match
\* returns (false, ErrBadPattern).
BadPattern(p) == \E i \in 1..Len(p) : p[i] = "["

RECURSIVE GlobOK(_, _)
GlobOK(p, s) ==
  IF p = <<>> THEN s = <<>>
  ELSE IF Head(p) = "*"
       THEN \E k \in 0..Len(s) : GlobOK(Tail(p), SubSeq(s, k + 1, Len(s)))
  ELSE IF s = <<>> THEN FALSE
  ELSE IF Head(p) = "?" THEN GlobOK(Tail(p), Tail(s))
  ELSE Head(p) = Head(s) /\ GlobOK(Tail(p), Tail(s))

\* matched, err := filepath.Match(pattern, name)
Match(pattern, name) ==
  IF BadPattern(pattern) THEN [matched |-> FALSE, err |-> <<"ErrBadPattern">>]
  ELSE [matched |-> GlobOK(pattern, name), err |-> NoErr]

----------------------------------------------------------------------------
(* The gitignore matcher of go-git (plumbing/format/gitignore), for rule    *)
(* lines without an inner "/": every rule line of this model is a name glob *)
(* with an optional leading "!" and an optional trailing "/".               *)

\* gitignore.ParsePattern(line, nil)
ParsePattern(line) ==
  LET incl == HasPrefix(line, <<"!">>)
      p1   == IF incl THEN Tail(line) ELSE line
      p2   == TrimRight(p1)
      dir  == HasSuffix(p2, <<"/">>)
      p3   == IF dir THEN SubSeq(p2, 1, Len(p2) - 1) ELSE p2
  IN  [inclusion |-> incl, dirOnly |-> dir,
       isGlob |-> \E i \in 1..Len(p3) : p3[i] = "/", pattern |-> p3]

\* A name match that takes a directory-only rule for a plain one.
simpleNameMatchAnyKind(pat, path, isDir) ==
  \E i \in 1..Len(path) : Match(pat.pattern, path[i]).matched

\* pattern.simpleNameMatch: the first path segment the glob matches decides.
simpleNameMatch(pat, path, isDir) ==
  LET hits == {i \in 1..Len(path) : Match(pat.pattern, path[i]).matched}
  IN  IF hits = {} THEN FALSE
      ELSE LET i == CHOOSE h \in hits : \A k \in hits : h <= k
           IN  ~(pat.dirOnly /\ ~isDir /\ i = Len(path))

\* pattern.Match: "NoMatch", "Exclude" or "Include".
PatternMatch(pat, path, isDir) ==
  IF pat.isGlob \/ ~simpleNameMatch(pat, path, isDir) THEN "NoMatch"
  ELSE IF pat.inclusion THEN "Include" ELSE "Exclude"

\* A matcher in which the first rule that matches decides.
RECURSIVE MatcherMatchFirst(_, _, _)
MatcherMatchFirst(patterns, path, isDir) ==
  IF patterns = <<>> THEN FALSE
  ELSE LET r == PatternMatch(Head(patterns), path, isDir)
       IN  IF r # "NoMatch" THEN r = "Exclude"
           ELSE MatcherMatchFirst(Tail(patterns), path, isDir)

\* matcher.Match: the last rule that matches decides.
RECURSIVE MatcherMatch(_, _, _)
MatcherMatch(patterns, path, isDir) ==
  IF patterns = <<>> THEN FALSE
  ELSE LET r == PatternMatch(Last(patterns), path, isDir)
       IN  IF r # "NoMatch" THEN r = "Exclude"
           ELSE MatcherMatch(SubSeq(patterns, 1, Len(patterns) - 1), path, isDir)

----------------------------------------------------------------------------
(* Pure helpers of the walker *)

Dot == <<".">>

\* filepath.Rel(dirPath, path) followed by filepath.ToSlash, as segments:
\* "." for the root itself.
Rel(dirPath, path) ==
  IF path = dirPath THEN <<Dot>>
  ELSE IF dirPath = <<Dot>> THEN path
  ELSE SubSeq(path, Len(dirPath) + 1, Len(path))

shouldIgnore(m, path, isDir) ==
  IF path = <<Dot>> THEN FALSE
  ELSE \E i \in 1..Len(path) :
         MatcherMatch(m, SubSeq(path, 1, i), isDir /\ i = Len(path))

\* A pattern test that does not look at filesOnly.
shouldIgnorePatternsAnyKind(name, isDir, patterns, filesOnly) ==
  \E k \in 1..Len(patterns) : Match(patterns[k], name).matched

shouldIgnorePatterns(name, isDir, patterns, filesOnly) ==
  IF filesOnly /\ isDir THEN FALSE
  ELSE \E k \in 1..Len(patterns) : Match(patterns[k], name).matched

\* A loader that takes every failure to read .gitignore for its absence.
loadGitignorePatternsLenient(gi) ==
  IF gi.state # "ok" THEN [patterns |-> <<>>, err |-> NoErr]
  ELSE LET trimmed == [i \in 1..Len(gi.lines) |-> TrimSpace(gi.lines[i])]
           kept    == SelectSeq(trimmed,
                                LAMBDA l : ~(l = <<>> \/ HasPrefix(l, <<"#">>)))
       IN  [patterns |-> [i \in 1..Len(kept) |-> ParsePattern(kept[i])],
            err |-> NoErr]

\* The file .gitignore at the root is missing, cannot be opened, fails while
\* being scanned (scanner.Err), or holds lines.
loadGitignorePatterns(gi) ==
  IF gi.state = "missing" THEN [patterns |-> <<>>, err |-> NoErr]
  ELSE IF gi.state = "unreadable" THEN [patterns |-> <<>>, err |-> <<"open">>]
  ELSE IF gi.state = "scanfail" THEN [patterns |-> <<>>, err |-> <<"scan">>]
  ELSE LET trimmed == [i \in 1..Len(gi.lines) |-> TrimSpace(gi.lines[i])]
           kept    == SelectSeq(trimmed,
                                LAMBDA l : ~(l = <<>> \/ HasPrefix(l, <<"#">>)))
       IN  [patterns |-> [i \in 1..Len(kept) |-> ParsePattern(kept[i])],
            err |-> NoErr]

\* An allow-list whose entries are compared as written, no dot added.
ExtWantedAsWritten(ext) == ext

\* The extension allow-list test of walkFiles.
ExtWanted(ext) == IF HasPrefix(ext, Dot) THEN ext ELSE Dot \o ext

ExtMatched(name, extensions) ==
  \E k \in 1..Len(extensions) : Ext(name) = ExtWanted(extensions[k])

\* A walker that knows .git only.
VCSNamesGitOnly == {<<".", "g", "i", "t">>}

VCSNames == {<<".", "g", "i", "t">>, <<".", "s", "v", "n">>, <<".", "h", "g">>}

----------------------------------------------------------------------------
(* The tree on disk.  An entry is [path, kind, fail, content, rerr]: path   *)
(* is relative to the root (<<>> for the root), kind is "dir", "file" or    *)
(* "other" (a non-regular file), fail says that reading the directory       *)
(* (ReadDir) or the file's info (d.Info) fails, rerr says how reading the   *)
(* file's content fails (nil, open, read).      fs.entries lists the      *)
(* entries in the order filepath.WalkDir visits them (lexical, pre-order).  *)

NoCand == [Path |-> <<>>, RelPath |-> <<>>]

NoRec == [Path |-> <<>>, RelPath |-> <<>>, Content |-> "", Err |-> NoErr]

Workers == 1..numWorkers

IsPrefix(p, q) == Len(p) <= Len(q) /\ SubSeq(q, 1, Len(p)) = p

\* filepath.Join(dirPath, rel), cleaned: "." joined with a/b is a/b.
FullPath(e) ==
  IF e.path = <<>> THEN fs.dirPath
  ELSE IF fs.dirPath = <<Dot>> THEN e.path
  ELSE fs.dirPath \o e.path

\* A walk whose root entry carries no name to test.
EntryNameRootBlank(e) == IF e.path = <<>> THEN <<>> ELSE Last(FullPath(e))

\* d.Name(): the base name; for the root, the base name of dirPath.
EntryName(e) == Last(FullPath(e))

\* A walk that does not prune: SkipDir continues with the directory's first
\* child.
SkipToChild(i) == i + 1

\* The index WalkDir continues at after SkipDir on the directory at i.
SkipTo(i) ==
  LET after == {j \in (i + 1)..Len(fs.entries) :
                  ~IsPrefix(fs.entries[i].path, fs.entries[j].path)}
  IN  IF after = {} THEN Len(fs.entries) + 1
      ELSE CHOOSE j \in after : \A k \in after : j <= k

\* The WalkDirFunc of walkFiles with matcher m on entry e, called with
\* err = nil, up to its select: "skipdir" (filepath.SkipDir), "skip" (return nil), "descend"
\* (return nil on a directory), "err" (return err) or "emit".
WalkDecision(m, e) ==
  LET name  == EntryName(e)
      isDir == e.kind = "dir"
      rel   == Rel(fs.dirPath, FullPath(e))
      skip  == IF isDir THEN "skipdir" ELSE "skip"
  IN  IF ~opts.IncludeHidden /\ HasPrefix(name, Dot) THEN skip
      ELSE IF isDir /\ name \in VCSNames THEN "skipdir"
      ELSE IF m # <<>> /\ rel # <<Dot>> /\ shouldIgnore(m, rel, isDir)
           THEN skip
      ELSE IF Len(opts.IgnorePatterns) > 0
              /\ shouldIgnorePatterns(name, isDir, opts.IgnorePatterns,
                                      opts.IgnoreFilesOnly)
           THEN skip
      ELSE IF isDir THEN "descend"
      ELSE IF e.fail THEN "err"
      ELSE IF e.kind # "file" THEN "skip"
      ELSE IF Len(opts.Extensions) > 0 /\ ~ExtMatched(name, opts.Extensions)
           THEN "skip"
      ELSE "emit"

\* The WalkDirFunc with the matcher the walker loaded.
WalkFn(e) == WalkDecision(matcher, e)

\* FileInput{Path: path, RelPath: relPath}
MakeInput(e) == [Path |-> FullPath(e), RelPath |-> Rel(fs.dirPath, FullPath(e))]

\* A readFileContent that returns what io.ReadAll had read with its error.
readFileContentPartial(path) ==
  LET e == CHOOSE x \in {fs.entries[i] : i \in 1..Len(fs.entries)} : FullPath(x) = path
  IN  IF e.rerr = <<"open">> THEN [content |-> "", err |-> <<"open">>]
      ELSE IF e.rerr = <<"read">> THEN [content |-> e.content, err |-> <<"read">>]
      ELSE [content |-> e.content, err |-> NoErr]

\* readFileContent(path): (content, err); a failure returns "" with the error.
readFileContent(path) ==
  LET e == CHOOSE x \in {fs.entries[i] : i \in 1..Len(fs.entries)} : FullPath(x) = path
  IN  IF e.rerr = <<"open">> THEN [content |-> "", err |-> <<"open">>]
      ELSE IF e.rerr = <<"read">> THEN [content |-> "", err |-> <<"read">>]
      ELSE [content |-> e.content, err |-> NoErr]

\* The FileResult processFile builds for an input.
MakeResult(input) ==
  LET r == readFileContent(input.Path)
  IN  [Path |-> input.Path, RelPath |-> input.RelPath,
       Content |-> r.content, Err |-> r.err]

----------------------------------------------------------------------------
(* Names, rule lines and patterns of the explored inputs *)

N_proj == <<"p", "r", "o", "j">>

N_cache == <<".", "c", "a", "c", "h", "e">>

N_env == <<".", "e", "n", "v">>

N_git == <<".", "g", "i", "t">>

N_hg == <<".", "h", "g">>

N_svn == <<".", "s", "v", "n">>

N_gitignore == <<".", "g", "i", "t", "i", "g", "n", "o", "r", "e">>

N_a_go == <<"a", ".", "g", "o">>

N_a_mod == <<"a", ".", "m", "o", "d">>

N_build == <<"b", "u", "i", "l", "d">>

N_keep_log == <<"k", "e", "e", "p", ".", "l", "o", "g">>

N_link == <<"l", "i", "n", "k">>

N_other_log == <<"o", "t", "h", "e", "r", ".", "l", "o", "g">>

N_sub == <<"s", "u", "b">>

N_b_go == <<"b", ".", "g", "o">>

N_deep_log == <<"d", "e", "e", "p", ".", "l", "o", "g">>

N_keep_txt == <<"k", "e", "e", "p", ".", "t", "x", "t">>

N_config == <<"c", "o", "n", "f", "i", "g">>

N_out_go == <<"o", "u", "t", ".", "g", "o">>

N_c_go == <<"c", ".", "g", "o">>

N_z_go == <<"z", ".", "g", "o">>

L_comment == <<"#", " ", "l", "o", "g", "s">>

L_star_log == <<"*", ".", "l", "o", "g", " ">>

L_not_keep == <<"!", "k", "e", "e", "p", ".", "l", "o", "g">>

L_build_dir == <<"b", "u", "i", "l", "d", "/">>

L_build == <<"b", "u", "i", "l", "d">>

P_star_log == <<"*", ".", "l", "o", "g">>

P_bad == <<"[">>

X_dot_go == <<".", "g", "o">>

X_go == <<"g", "o">>

X_log == <<"l", "o", "g">>

X_dot_GO == <<".", "G", "O">>

File(path, content) ==
  [path |-> path, kind |-> "file", fail |-> FALSE, content |-> content, rerr |-> NoErr]

BadFile(path, rerr) ==
  [path |-> path, kind |-> "file", fail |-> FALSE, content |-> "partial", rerr |-> rerr]

Dir(path) ==
  [path |-> path, kind |-> "dir", fail |-> FALSE, content |-> "", rerr |-> NoErr]

Other(path) ==
  [path |-> path, kind |-> "other", fail |-> FALSE, content |-> "", rerr |-> NoErr]

Failing(e) == [e EXCEPT !.fail = TRUE]

\* The contents of .gitignore at the root.
Gitignores ==
  { [state |-> "missing", lines |-> <<>>],
    [state |-> "unreadable", lines |-> <<>>],
    [state |-> "scanfail", lines |-> <<L_build>>],
    [state |-> "ok", lines |-> <<L_comment, <<>>, L_star_log, L_not_keep>>],
    [state |-> "ok", lines |-> <<L_build_dir>>],
    [state |-> "ok", lines |-> <<L_build>>] }

\* The entries of the large tree, in WalkDir's order: build is a directory
\* or a regular file, .gitignore is there or not, and sub may be unreadable.
BigEntries(buildIsDir, hasGitignore, subFails) ==
  <<Dir(<<>>), Dir(<<N_cache>>), File(<<N_cache, N_keep_txt>>, "k"),
    File(<<N_env>>, "e"), Dir(<<N_git>>), File(<<N_git, N_config>>, "c")>>
  \o (IF hasGitignore THEN <<File(<<N_gitignore>>, "g")>> ELSE <<>>)
  \o <<File(<<N_a_go>>, "a"), File(<<N_a_mod>>, "m")>>
  \o (IF buildIsDir THEN <<Dir(<<N_build>>), File(<<N_build, N_out_go>>, "o")>>
      ELSE <<File(<<N_build>>, "b")>>)
  \o <<File(<<N_keep_log>>, "l"), Other(<<N_link>>), BadFile(<<N_other_log>>, <<"open">>),
       IF subFails THEN Failing(Dir(<<N_sub>>)) ELSE Dir(<<N_sub>>),
       File(<<N_sub, N_b_go>>, "s"), File(<<N_sub, N_deep_log>>, "d")>>

BigTrees ==
  { [dirPath |-> root, gitignore |-> gi,
     entries |-> BigEntries(b, gi.state # "missing", sf)] :
      root \in {<<N_proj>>, <<Dot>>}, gi \in Gitignores, b \in BOOLEAN,
      sf \in BOOLEAN }

\* The tree a.go, a.mod, sub/b.go, without .gitignore.
ExtTree ==
  [dirPath |-> <<N_proj>>, gitignore |-> [state |-> "missing", lines |-> <<>>],
   entries |-> <<Dir(<<>>), File(<<N_a_go>>, "a"), File(<<N_a_mod>>, "m"),
                 Dir(<<N_sub>>), File(<<N_sub, N_b_go>>, "s")>>]

\* A tree with a regular file .git (as in a worktree), the directories .hg
\* and .svn with a file each, and a.go.
VcsTree ==
  [dirPath |-> <<N_proj>>, gitignore |-> [state |-> "missing", lines |-> <<>>],
   entries |-> <<Dir(<<>>), File(<<N_git>>, "w"), Dir(<<N_hg>>),
                 File(<<N_hg, N_config>>, "h"), Dir(<<N_svn>>),
                 File(<<N_svn, N_config>>, "v"), File(<<N_a_go>>, "a")>>]

\* A tree with a directory build holding a file build and out.go, keep.log,
\* and a file build below sub.
PatTree ==
  [dirPath |-> <<N_proj>>, gitignore |-> [state |-> "missing", lines |-> <<>>],
   entries |-> <<Dir(<<>>), Dir(<<N_build>>), File(<<N_build, N_build>>, "b"),
                 File(<<N_build, N_out_go>>, "o"), File(<<N_keep_log>>, "l"),
                 Dir(<<N_sub>>), File(<<N_sub, N_build>>, "s")>>]

\* Gather called on a directory named .git, and on a directory named build
\* whose .gitignore holds the rule build.
GitRootTree ==
  [dirPath |-> <<N_git>>, gitignore |-> [state |-> "missing", lines |-> <<>>],
   entries |-> <<Dir(<<>>), File(<<N_config>>, "c")>>]

BuildRootTree ==
  [dirPath |-> <<N_build>>, gitignore |-> [state |-> "ok", lines |-> <<L_build>>],
   entries |-> <<Dir(<<>>), File(<<N_gitignore>>, "g"), File(<<N_a_go>>, "a")>>]

FilterTrees == BigTrees \cup {ExtTree, VcsTree, PatTree, GitRootTree, BuildRootTree}

AllOptions ==
  [ Extensions : {<<>>, <<X_dot_go>>, <<X_go, X_log>>, <<X_dot_GO>>},
    IncludeHidden : BOOLEAN,
    IgnoreGitignore : BOOLEAN,
    IgnorePatterns : {<<>>, <<N_build>>, <<P_bad, P_star_log>>},
    IgnoreFilesOnly : BOOLEAN ]

\* The small trees the worker pool is explored on: three files of which one
\* cannot be opened and one fails while being read; a tree whose directory
\* sub cannot be read after one file was emitted; a tree where the info of
\* the second file cannot be read.
SmallTrees ==
  { [dirPath |-> <<N_proj>>, gitignore |-> [state |-> "missing", lines |-> <<>>],
     entries |-> <<Dir(<<>>), File(<<N_a_go>>, "a"), BadFile(<<N_b_go>>, <<"open">>),
                   BadFile(<<N_c_go>>, <<"read">>)>>],
    [dirPath |-> <<N_proj>>, gitignore |-> [state |-> "missing", lines |-> <<>>],
     entries |-> <<Dir(<<>>), File(<<N_a_go>>, "a"), Failing(Dir(<<N_sub>>)),
                   File(<<N_sub, N_b_go>>, "s"), File(<<N_z_go>>, "z")>>],
    [dirPath |-> <<N_proj>>, gitignore |-> [state |-> "unreadable", lines |-> <<>>],
     entries |-> <<Dir(<<>>), File(<<N_gitignore>>, "g"), File(<<N_a_go>>, "a"),
                   Failing(File(<<N_b_go>>, "s")), File(<<N_c_go>>, "z")>>] }

\* The trees termination is explored on: two files, the second unreadable;
\* and the tree whose directory sub cannot be read.
LiveTrees ==
  { [dirPath |-> <<N_proj>>, gitignore |-> [state |-> "missing", lines |-> <<>>],
     entries |-> <<Dir(<<>>), File(<<N_a_go>>, "a"), BadFile(<<N_b_go>>, <<"open">>)>>],
    [dirPath |-> <<N_proj>>, gitignore |-> [state |-> "missing", lines |-> <<>>],
     entries |-> <<Dir(<<>>), File(<<N_a_go>>, "a"), Failing(Dir(<<N_sub>>)),
                   File(<<N_sub, N_b_go>>, "s"), File(<<N_z_go>>, "z")>>] }

SmallOptions ==
  [ Extensions : {<<>>},
    IncludeHidden : {TRUE},
    IgnoreGitignore : BOOLEAN,
    IgnorePatterns : {<<>>},
    IgnoreFilesOnly : {FALSE} ]

----------------------------------------------------------------------------
(* Initial states: Gather has created done, started walkFiles, the          *)
(* numWorkers processFile goroutines and merge's goroutines, and is about   *)
(* to receive from resultsCh.                                               *)

PipelineInit(trees, options, counts) ==
  /\ fs \in trees
  /\ opts \in options
  /\ numWorkers \in counts
  /\ wpc = "load"
  /\ pos = 1
  /\ matcher = <<>>
  /\ cand = NoCand
  /\ errCh = <<>>
  /\ errClosed = FALSE
  /\ filesClosed = FALSE
  /\ ppc = [i \in Workers |-> "recv"]
  /\ pres = [i \in Workers |-> NoRec]
  /\ wClosed = [i \in Workers |-> FALSE]
  /\ fpc = [i \in Workers |-> "recv"]
  /\ fres = [i \in Workers |-> NoRec]
  /\ outClosed = FALSE
  /\ gpc = "recv"
  /\ grec = NoRec
  /\ results = <<>>
  /\ retErr = NoErr
  /\ done = FALSE
  /\ emitted = <<>>
  /\ got = [i \in Workers |-> <<>>]
  /\ mergeIn = <<>>
  /\ merged = <<>>
  /\ cancelAt = -1
  /\ errSent = <<>>

\* Combine has not been called.
CombineIdle ==
  /\ cresults = <<>>
  /\ copts = [OutputFile |-> "", Format |-> "", LineNumbers |-> FALSE]
  /\ cpc = "idle"
  /\ ci = 1
  /\ index = 0
  /\ file = <<>>
  /\ cerr = NoErr

InitWith(trees, options, counts) ==
  PipelineInit(trees, options, counts) /\ CombineIdle

Init == InitWith(SmallTrees, SmallOptions, 1..MaxWorkers)

InitFilter == InitWith(FilterTrees, AllOptions, {1})

InitLive == InitWith(LiveTrees, SmallOptions, 1..MaxWorkers)

\* Cancellation does not depend on how the rules were loaded: it is explored
\* with the .gitignore read.
CancelOptions == {o \in SmallOptions : ~o.IgnoreGitignore}

InitCancel == InitWith(SmallTrees, CancelOptions, 1..MaxWorkers)

----------------------------------------------------------------------------
(* The walker goroutine of walkFiles *)

WalkerVars == <<wpc, pos, matcher, cand, errCh, errClosed, filesClosed, errSent>>
WorkerVars == <<ppc, pres, wClosed>>
MergeVars  == <<fpc, fres, outClosed>>
GatherVars == <<gpc, grec, results, retErr>>
ConfigVars == <<fs, opts, numWorkers>>
CombineVars == <<cresults, copts, cpc, ci, index, file, cerr>>

\* A walker that returns on an error without sending it on errCh.
WalkerFailSilent(err) ==
  /\ wpc' = "closeErr"
  /\ UNCHANGED <<errCh, errSent>>

\* errCh <- err, then return: the deferred closes follow as steps of their own.
WalkerFail(err) ==
  /\ Len(errCh) < 1
  /\ errCh' = Append(errCh, err)
  /\ errSent' = Append(errSent, err)
  /\ wpc' = "closeErr"

\* Lines 48-59: load the root .gitignore unless IgnoreGitignore is set.
WalkerLoad ==
  /\ wpc = "load"
  /\ LET r == loadGitignorePatterns(fs.gitignore)
     IN  IF ~opts.IgnoreGitignore /\ r.err # NoErr
         THEN /\ WalkerFail(Wrap("loading gitignore", r.err))
              /\ UNCHANGED matcher
         ELSE /\ matcher' = IF opts.IgnoreGitignore THEN <<>> ELSE r.patterns
              /\ wpc' = "walk"
              /\ UNCHANGED <<errCh, errSent>>
  /\ UNCHANGED <<pos, cand, errClosed, filesClosed, WorkerVars, MergeVars,
                 GatherVars, ConfigVars, CombineVars, done, emitted, got, mergeIn, merged,
                 cancelAt>>

\* One call of the WalkDirFunc by filepath.WalkDir, up to its return or its
\* select.  A directory the function accepts is then read by WalkDir; when
\* that fails WalkDir calls the function again with the error, which it
\* returns (line 62), and the walk ends with it.
WalkerVisit ==
  /\ wpc = "walk"
  /\ pos <= Len(fs.entries)
  /\ LET e == fs.entries[pos]
         d == WalkFn(e)
     IN  CASE d = "skipdir" ->
                /\ pos' = SkipTo(pos)
                /\ UNCHANGED <<wpc, cand, errCh, errSent>>
           [] d = "skip" \/ (d = "descend" /\ ~e.fail) ->
                /\ pos' = pos + 1
                /\ UNCHANGED <<wpc, cand, errCh, errSent>>
           [] d = "err" \/ (d = "descend" /\ e.fail) ->
                /\ WalkerFail(IF d = "err" THEN <<"info">> ELSE <<"readdir">>)
                /\ UNCHANGED <<pos, cand>>
           [] d = "emit" ->
                /\ cand' = MakeInput(e)
                /\ wpc' = "emit"
                /\ UNCHANGED <<pos, errCh, errSent>>
  /\ UNCHANGED <<matcher, errClosed, filesClosed, WorkerVars, MergeVars,
                 GatherVars, ConfigVars, CombineVars, done, emitted, got, mergeIn, merged,
                 cancelAt>>

\* A walker whose select may take its done case with done still open.
WalkerReadyOrCancel == {i \in Workers : ppc[i] = "recv"} \cup {0}

\* A walker whose send does not wait for a worker to be receiving (as on a
\* buffered channel).
WalkerReadyAnyWorker == Workers \cup (IF done THEN {0} ELSE {})

\* The cases of the walker's select (lines 146-150) that can proceed: a send
\* to a worker blocked in its receive, and the receive from done once done
\* is closed (0).  Go picks one of the ready cases at random.
WalkerReady == {i \in Workers : ppc[i] = "recv"} \cup (IF done THEN {0} ELSE {})

WalkerSelect ==
  /\ wpc = "emit"
  /\ \E b \in WalkerReady :
       IF b = 0
       THEN /\ WalkerFail(<<"walk cancelled">>)
            /\ cand' = NoCand
            /\ UNCHANGED <<pos, ppc, pres, emitted, got>>
       ELSE /\ emitted' = Append(emitted, cand)
            /\ got' = [got EXCEPT ![b] = Append(@, cand)]
            /\ ppc' = [ppc EXCEPT ![b] = "send"]
            /\ pres' = [pres EXCEPT ![b] = MakeResult(cand)]
            /\ cand' = NoCand
            /\ pos' = pos + 1
            /\ wpc' = "walk"
            /\ UNCHANGED <<errCh, errSent>>
  /\ UNCHANGED <<matcher, errClosed, filesClosed, wClosed, MergeVars,
                 GatherVars, ConfigVars, CombineVars, done, mergeIn, merged, cancelAt>>

\* A walker whose deferred close(out) runs without errCh having been closed.
WalkerFinishOutFirst ==
  /\ wpc = "walk"
  /\ pos > Len(fs.entries)
  /\ wpc' = "closeOut"
  /\ UNCHANGED <<pos, matcher, cand, errCh, errClosed, filesClosed, errSent,
                 WorkerVars, MergeVars, GatherVars, ConfigVars, CombineVars, done, emitted,
                 got, mergeIn, merged, cancelAt>>

\* filepath.WalkDir returned nil: nothing is sent on errCh.
WalkerFinish ==
  /\ wpc = "walk"
  /\ pos > Len(fs.entries)
  /\ wpc' = "closeErr"
  /\ UNCHANGED <<pos, matcher, cand, errCh, errClosed, filesClosed, errSent,
                 WorkerVars, MergeVars, GatherVars, ConfigVars, CombineVars, done, emitted,
                 got, mergeIn, merged, cancelAt>>

\* defer close(errCh) runs first (line 46) ...
WalkerCloseErr ==
  /\ wpc = "closeErr"
  /\ errClosed' = TRUE
  /\ wpc' = "closeOut"
  /\ UNCHANGED <<pos, matcher, cand, errCh, filesClosed, errSent,
                 WorkerVars, MergeVars, GatherVars, ConfigVars, CombineVars, done, emitted,
                 got, mergeIn, merged, cancelAt>>

\* ... then defer close(out) (line 45).
WalkerCloseOut ==
  /\ wpc = "closeOut"
  /\ filesClosed' = TRUE
  /\ wpc' = "done"
  /\ UNCHANGED <<pos, matcher, cand, errCh, errClosed, errSent,
                 WorkerVars, MergeVars, GatherVars, ConfigVars, CombineVars, done, emitted,
                 got, mergeIn, merged, cancelAt>>

----------------------------------------------------------------------------
(* The processFile goroutines.  The receive of `for input := range in` is   *)
(* the worker's half of WalkerSelect, together with readFileContent and the *)
(* building of the FileResult.                                              *)

\* range in ends: filesCh is closed; defer close(out).
\* A worker that returns without closing its out channel (no defer close).
WorkerExitNoClose(i) ==
  /\ ppc[i] = "recv"
  /\ filesClosed
  /\ ppc' = [ppc EXCEPT ![i] = "exited"]
  /\ UNCHANGED <<pres, wClosed, WalkerVars, MergeVars, GatherVars, ConfigVars, CombineVars,
                 done, emitted, got, mergeIn, merged, cancelAt>>

WorkerExit(i) ==
  /\ ppc[i] = "recv"
  /\ filesClosed
  /\ ppc' = [ppc EXCEPT ![i] = "exited"]
  /\ wClosed' = [wClosed EXCEPT ![i] = TRUE]
  /\ UNCHANGED <<pres, WalkerVars, MergeVars, GatherVars, ConfigVars, CombineVars, done,
                 emitted, got, mergeIn, merged, cancelAt>>

\* A worker whose select gives up the send whenever it would block, done
\* closed or not.
WorkerReadyOrDrop(i) ==
  (IF fpc[i] = "recv" THEN {"send"} ELSE {}) \cup {"done"}

\* The ready cases of the worker's select (lines 284-288).
WorkerReady(i) ==
  (IF fpc[i] = "recv" THEN {"send"} ELSE {}) \cup (IF done THEN {"done"} ELSE {})

WorkerSelect(i) ==
  /\ ppc[i] = "send"
  /\ \E b \in WorkerReady(i) :
       IF b = "send"
       THEN /\ fpc' = [fpc EXCEPT ![i] = "send"]
            /\ fres' = [fres EXCEPT ![i] = pres[i]]
            /\ mergeIn' = Append(mergeIn, pres[i])
            /\ ppc' = [ppc EXCEPT ![i] = "recv"]
            /\ UNCHANGED wClosed
       ELSE /\ ppc' = [ppc EXCEPT ![i] = "cancelled"]
            /\ wClosed' = [wClosed EXCEPT ![i] = TRUE]
            /\ UNCHANGED <<fpc, fres, mergeIn>>
  /\ pres' = [pres EXCEPT ![i] = NoRec]
  /\ UNCHANGED <<outClosed, WalkerVars, GatherVars, ConfigVars, CombineVars, done, emitted,
                 got, merged, cancelAt>>

----------------------------------------------------------------------------
(* merge: one output goroutine per worker channel, and the goroutine that   *)
(* waits for them and closes out.                                           *)

\* range ch ends: the worker's channel is closed; defer wg.Done().
OutputExit(i) ==
  /\ fpc[i] = "recv"
  /\ wClosed[i]
  /\ fpc' = [fpc EXCEPT ![i] = "exited"]
  /\ UNCHANGED <<fres, outClosed, WalkerVars, WorkerVars, GatherVars, ConfigVars, CombineVars,
                 done, emitted, got, mergeIn, merged, cancelAt>>

\* An output goroutine whose select gives up the send whenever it would
\* block, done closed or not.
OutputReadyOrDrop(i) ==
  (IF gpc = "recv" THEN {"send"} ELSE {}) \cup {"done"}

\* An output goroutine that only sends: its select has no done case.
OutputReadyNoDone(i) == IF gpc = "recv" THEN {"send"} ELSE {}

\* The ready cases of the select of output (lines 233-237).
OutputReady(i) ==
  (IF gpc = "recv" THEN {"send"} ELSE {}) \cup (IF done THEN {"done"} ELSE {})

OutputSelect(i) ==
  /\ fpc[i] = "send"
  /\ \E b \in OutputReady(i) :
       IF b = "send"
       THEN /\ grec' = fres[i]
            /\ gpc' = "append"
            /\ merged' = Append(merged, fres[i])
            /\ fpc' = [fpc EXCEPT ![i] = "recv"]
       ELSE /\ fpc' = [fpc EXCEPT ![i] = "cancelled"]
            /\ UNCHANGED <<grec, gpc, merged>>
  /\ fres' = [fres EXCEPT ![i] = NoRec]
  /\ UNCHANGED <<outClosed, results, retErr, WalkerVars, WorkerVars, ConfigVars, CombineVars,
                 done, emitted, got, mergeIn, cancelAt>>

\* A WaitGroup counting one goroutine only: wg.Wait() returns after the
\* first wg.Done().
MergeWaitAny == \E i \in Workers : fpc[i] \in {"exited", "cancelled"}

\* wg.Wait() returns once every output goroutine has called wg.Done().
MergeWaitDone == \A i \in Workers : fpc[i] \in {"exited", "cancelled"}

MergeClose ==
  /\ ~outClosed
  /\ MergeWaitDone
  /\ outClosed' = TRUE
  /\ UNCHANGED <<fpc, fres, WalkerVars, WorkerVars, GatherVars, ConfigVars, CombineVars,
                 done, emitted, got, mergeIn, merged, cancelAt>>

----------------------------------------------------------------------------
(* Gather: the drain loop, the read of walkErrCh and the return, with the   *)
(* deferred close(done).                                                    *)

\* results = append(results, result)
GatherAppend ==
  /\ gpc = "append"
  /\ results' = Append(results, grec)
  /\ grec' = NoRec
  /\ gpc' = "recv"
  /\ UNCHANGED <<retErr, WalkerVars, WorkerVars, MergeVars, ConfigVars, CombineVars, done,
                 emitted, got, mergeIn, merged, cancelAt>>

\* range resultsCh ends: resultsCh is closed.
GatherDrained ==
  /\ gpc = "recv"
  /\ outClosed
  /\ gpc' = "errwait"
  /\ UNCHANGED <<grec, results, retErr, WalkerVars, WorkerVars, MergeVars,
                 ConfigVars, CombineVars, done, emitted, got, mergeIn, merged, cancelAt>>

\* A Gather that also fails when some record carries a read error (as Run
\* exits on them).
AggregateErrorStrict(err) ==
  IF err # NoErr \/ \E j \in 1..Len(results) : results[j].Err # NoErr
  THEN Wrap("error walking directory", err)
  ELSE NoErr

\* Lines 317-321: the error Gather returns for the value read from walkErrCh.
AggregateError(err) ==
  IF err # NoErr THEN Wrap("error walking directory", err) ELSE NoErr

\* err := <-walkErrCh: the buffered value if there is one, nil once closed.
GatherReturn ==
  /\ gpc = "errwait"
  /\ errCh # <<>> \/ errClosed
  /\ LET err == IF errCh # <<>> THEN Head(errCh) ELSE NoErr
     IN  retErr' = AggregateError(err)
  /\ errCh' = IF errCh # <<>> THEN Tail(errCh) ELSE errCh
  /\ gpc' = "returned"
  /\ done' = TRUE
  /\ UNCHANGED <<grec, results, wpc, pos, matcher, cand, errClosed, filesClosed,
                 errSent, WorkerVars, MergeVars, ConfigVars, CombineVars, emitted, got,
                 mergeIn, merged, cancelAt>>

\* The stages take done as a parameter: a caller that owns done (as Run's
\* caller does) may close it at any time while the pipeline runs.
Cancel ==
  /\ ~done
  /\ gpc # "returned"
  /\ done' = TRUE
  /\ cancelAt' = Len(emitted)
  /\ UNCHANGED <<WalkerVars, WorkerVars, MergeVars, GatherVars, ConfigVars, CombineVars,
                 emitted, got, mergeIn, merged>>

----------------------------------------------------------------------------

Walker ==
  \/ WalkerLoad
  \/ WalkerVisit
  \/ WalkerSelect
  \/ WalkerFinish
  \/ WalkerCloseErr
  \/ WalkerCloseOut

Worker(i) == WorkerExit(i) \/ WorkerSelect(i)

Output(i) == OutputExit(i) \/ OutputSelect(i)

Consumer == GatherAppend \/ GatherDrained \/ GatherReturn

Next ==
  \/ Walker
  \/ \E i \in Workers : Worker(i)
  \/ \E i \in Workers : Output(i)
  \/ MergeClose
  \/ Consumer

NextCancel == Next \/ Cancel

\* Gather as written: done is closed only by Gather's return.
Spec == Init /\ [][Next]_vars

\* Gather on the large trees and every option, with one worker.
SpecFilter == InitFilter /\ [][Next]_vars

\* The stages under a done channel their caller may close at any time.
SpecCancel == InitCancel /\ [][NextCancel]_vars

\* Every goroutine of the pipeline is scheduled; the consumer may stop
\* draining, and the caller need not cancel.
Fairness ==
  /\ WF_vars(Walker)
  /\ \A i \in 1..MaxWorkers : WF_vars(i \in Workers /\ Worker(i))
  /\ \A i \in 1..MaxWorkers : WF_vars(i \in Workers /\ Output(i))
  /\ WF_vars(MergeClose)

SpecCancelFair == InitLive /\ [][NextCancel]_vars /\ Fairness

\* Gather as written, every goroutine scheduled and Gather itself running:
\* it keeps draining resultsCh and then reads walkErrCh.
SpecFair == Init /\ [][Next]_vars /\ Fairness /\ WF_vars(Consumer)

----------------------------------------------------------------------------
(* Combine: writing the gathered records as one markdown or XML document.  *)
(* A record's Content is a sequence of one-character strings here, so that *)
(* it can be split into lines and searched; the fixed pieces of the output *)
(* (tags, language names) are single strings.                              *)

\* Largest results slice Combine is called with.
MaxRecords == 3

NL == "\n"

\* The character U+0060, which a string constant here cannot hold.
Backtick == "backtick"

Digits == <<"0", "1", "2", "3", "4", "5", "6", "7", "8", "9">>

\* fmt.Sprintf("%d", n) for n >= 0
RECURSIVE Itoa(_)
Itoa(n) == IF n < 10 THEN <<Digits[n + 1]>> ELSE Itoa(n \div 10) \o <<Digits[(n % 10) + 1]>>

\* fmt.Sprintf("%*d", width, n): right-aligned in width columns
RECURSIVE PadLeft(_, _)
PadLeft(s, width) == IF Len(s) >= width THEN s ELSE PadLeft(<<" ">> \o s, width)

\* strings.Split(s, "\n"): always at least one piece
RECURSIVE Split(_)
Split(s) ==
  LET cuts == {i \in 1..Len(s) : s[i] = NL}
  IN  IF cuts = {} THEN <<s>>
      ELSE LET i == CHOOSE c \in cuts : \A d \in cuts : c <= d
           IN  <<SubSeq(s, 1, i - 1)>> \o Split(SubSeq(s, i + 1, Len(s)))

\* strings.Join(pieces, "\n")
RECURSIVE Join(_)
Join(pieces) ==
  IF pieces = <<>> THEN <<>>
  ELSE IF Len(pieces) = 1 THEN pieces[1]
  ELSE pieces[1] \o <<NL>> \o Join(Tail(pieces))

\* strings.Contains(s, sub)
Contains(s, sub) ==
  \E i \in 1..(Len(s) - Len(sub) + 1) : SubSeq(s, i, i + Len(sub) - 1) = sub

addLineNumbers(content) ==
  LET lines    == Split(content)
      padding  == Len(Itoa(Len(lines)))
      numbered == [i \in 1..Len(lines) |->
                     PadLeft(Itoa(i), padding) \o <<" ", " ">> \o lines[i]]
  IN  Join(numbered)

\* A RelPath as the string the record carries: its segments joined by "/".
RECURSIVE PathString(_)
PathString(rel) ==
  IF rel = <<>> THEN <<>>
  ELSE IF Len(rel) = 1 THEN rel[1]
  ELSE rel[1] \o <<"/">> \o PathString(Tail(rel))

\* filepath.Ext(result.RelPath): the extension of the last segment
PathExt(rel) == IF rel = <<>> THEN <<>> ELSE Ext(Last(rel))

\* extToLang[ext]: "" for an extension the map does not hold
extToLang(ext) ==
  CASE ext = <<".", "p", "y">> -> <<"python">>
    [] ext = <<".", "c">> -> <<"c">>
    [] ext = <<".", "c", "p", "p">> -> <<"cpp">>
    [] ext = <<".", "g", "o">> -> <<"go">>
    [] ext = <<".", "j", "a", "v", "a">> -> <<"java">>
    [] ext = <<".", "j", "s">> -> <<"javascript">>
    [] ext = <<".", "j", "s", "x">> -> <<"jsx">>
    [] ext = <<".", "t", "s">> -> <<"typescript">>
    [] ext = <<".", "t", "s", "x">> -> <<"tsx">>
    [] ext = <<".", "r", "s">> -> <<"rust">>
    [] ext = <<".", "h", "t", "m", "l">> -> <<"html">>
    [] ext = <<".", "c", "s", "s">> -> <<"css">>
    [] ext = <<".", "x", "m", "l">> -> <<"xml">>
    [] ext = <<".", "j", "s", "o", "n">> -> <<"json">>
    [] ext = <<".", "y", "a", "m", "l">> -> <<"yaml">>
    [] ext = <<".", "y", "m", "l">> -> <<"yaml">>
    [] ext = <<".", "s", "h">> -> <<"bash">>
    [] ext = <<".", "r", "b">> -> <<"ruby">>
    [] OTHER -> <<>>

\* The fence: three backticks, lengthened while the content holds it.
RECURSIVE Fence(_, _)
Fence(content, backticks) ==
  IF Contains(content, backticks) THEN Fence(content, backticks \o <<Backtick>>)
  ELSE backticks

\* The content as written: numbered when lineNumbers is set.
Shown(result, lineNumbers) ==
  IF lineNumbers THEN addLineNumbers(result.Content) ELSE result.Content

\* The four writes combineAsMarkdown makes for one record.
MarkdownWrites(result, lineNumbers) ==
  LET content   == Shown(result, lineNumbers)
      lang      == extToLang(PathExt(result.RelPath))
      backticks == Fence(content, <<Backtick, Backtick, Backtick>>)
  IN  << PathString(result.RelPath) \o <<NL>>,
         backticks \o lang \o <<NL>>,
         content \o <<NL>>,
         backticks \o <<NL>> >>

\* The write that opens document number n.
DocumentOpen(n) == <<"<document index=\"">> \o Itoa(n) \o <<"\">", NL>>

\* The write that names a document's source.
SourceLine(rel) == <<"<source>">> \o PathString(rel) \o <<"</source>", NL>>

\* The six writes combineAsXML makes for one record.
DocumentWrites(result, n, lineNumbers) ==
  << DocumentOpen(n),
     SourceLine(result.RelPath),
     <<"<document_content>", NL>>,
     Shown(result, lineNumbers) \o <<NL>>,
     <<"</document_content>", NL>>,
     <<"</document>", NL>> >>

\* The records Combine is called with.
R_a_go ==
  [Path |-> <<N_proj, N_a_go>>, RelPath |-> <<N_a_go>>,
   Content |-> <<"x">>, Err |-> NoErr]

R_b_go ==
  [Path |-> <<N_proj, N_sub, N_b_go>>, RelPath |-> <<N_sub, N_b_go>>,
   Content |-> <<"x", NL, "y">>, Err |-> NoErr]

R_keep_txt ==
  [Path |-> <<N_proj, N_keep_txt>>, RelPath |-> <<N_keep_txt>>,
   Content |-> <<Backtick, Backtick, Backtick>>, Err |-> NoErr]

R_c_go ==
  [Path |-> <<N_proj, N_c_go>>, RelPath |-> <<N_c_go>>,
   Content |-> <<>>, Err |-> <<"read">>]

R_z_go ==
  [Path |-> <<N_proj, N_z_go>>, RelPath |-> <<N_z_go>>,
   Content |-> <<"z">>, Err |-> <<"open">>]

CombineRecords == {R_a_go, R_b_go, R_keep_txt, R_c_go, R_z_go}

ResultLists == UNION {[1..n -> CombineRecords] : n \in 0..MaxRecords}

CombineOptions ==
  [ OutputFile : {"out"},
    Format : {"xml", "markdown", ""},
    LineNumbers : BOOLEAN ]

\* The zero GatherOptions.
DefaultGatherOptions ==
  [Extensions |-> <<>>, IncludeHidden |-> FALSE, IgnoreGitignore |-> FALSE,
   IgnorePatterns |-> <<>>, IgnoreFilesOnly |-> FALSE]

\* Combine has been called with some results and options.
InitCombine ==
  /\ PipelineInit({PatTree}, {DefaultGatherOptions}, {1})
  /\ cresults \in ResultLists
  /\ copts \in CombineOptions
  /\ cpc = "create"
  /\ ci = 1
  /\ index = 0
  /\ file = <<>>
  /\ cerr = NoErr

PipelineVars ==
  <<WalkerVars, WorkerVars, MergeVars, GatherVars, ConfigVars, done, emitted,
    got, mergeIn, merged, cancelAt>>

\* os.Create succeeds and Combine enters the format's function, or fails
\* and Combine returns the wrapped error.
CombineCreate ==
  /\ cpc = "create"
  /\ \E ok \in BOOLEAN :
       IF ok
       THEN /\ cpc' = IF copts.Format = "xml" THEN "xmlopen" ELSE "markdown"
            /\ cerr' = cerr
       ELSE /\ cpc' = "returned"
            /\ cerr' = Wrap("creating output file", <<"create">>)
  /\ UNCHANGED <<cresults, copts, ci, index, file, PipelineVars>>

\* combineAsXML before its loop
XMLOpen ==
  /\ cpc = "xmlopen"
  /\ file' = Append(file, <<"<documents>", NL>>)
  /\ index' = 1
  /\ cpc' = "xml"
  /\ UNCHANGED <<cresults, copts, ci, cerr, PipelineVars>>

\* An error record that takes an index although nothing is written for it.
XMLSkipCounting ==
  /\ cpc = "xml"
  /\ ci <= Len(cresults)
  /\ cresults[ci].Err # NoErr
  /\ ci' = ci + 1
  /\ index' = index + 1
  /\ UNCHANGED <<cresults, copts, cpc, file, cerr, PipelineVars>>

\* combineAsXML's loop on a record whose Err is set: continue
XMLSkip ==
  /\ cpc = "xml"
  /\ ci <= Len(cresults)
  /\ cresults[ci].Err # NoErr
  /\ ci' = ci + 1
  /\ UNCHANGED <<cresults, copts, cpc, index, file, cerr, PipelineVars>>

\* combineAsXML's loop on a record without error
XMLDocument ==
  /\ cpc = "xml"
  /\ ci <= Len(cresults)
  /\ cresults[ci].Err = NoErr
  /\ file' = file \o DocumentWrites(cresults[ci], index, copts.LineNumbers)
  /\ index' = index + 1
  /\ ci' = ci + 1
  /\ UNCHANGED <<cresults, copts, cpc, cerr, PipelineVars>>

\* combineAsXML after its loop
XMLClose ==
  /\ cpc = "xml"
  /\ ci > Len(cresults)
  /\ file' = Append(file, <<"</documents>", NL>>)
  /\ cerr' = NoErr
  /\ cpc' = "returned"
  /\ UNCHANGED <<cresults, copts, ci, index, PipelineVars>>

\* combineAsMarkdown's loop on a record whose Err is set: continue
MarkdownSkip ==
  /\ cpc = "markdown"
  /\ ci <= Len(cresults)
  /\ cresults[ci].Err # NoErr
  /\ ci' = ci + 1
  /\ UNCHANGED <<cresults, copts, cpc, index, file, cerr, PipelineVars>>

\* combineAsMarkdown's loop on a record without error
MarkdownBlock ==
  /\ cpc = "markdown"
  /\ ci <= Len(cresults)
  /\ cresults[ci].Err = NoErr
  /\ file' = file \o MarkdownWrites(cresults[ci], copts.LineNumbers)
  /\ ci' = ci + 1
  /\ UNCHANGED <<cresults, copts, cpc, index, cerr, PipelineVars>>

\* combineAsMarkdown after its loop
MarkdownReturn ==
  /\ cpc = "markdown"
  /\ ci > Len(cresults)
  /\ cerr' = NoErr
  /\ cpc' = "returned"
  /\ UNCHANGED <<cresults, copts, ci, index, file, PipelineVars>>

NextCombine ==
  \/ CombineCreate
  \/ XMLOpen
  \/ XMLSkip
  \/ XMLDocument
  \/ XMLClose
  \/ MarkdownSkip
  \/ MarkdownBlock
  \/ MarkdownReturn

\* Combine on every list of up to MaxRecords records.
SpecCombine == InitCombine /\ [][NextCombine]_vars

----------------------------------------------------------------------------
(* What the claims are stated with *)

Range(q) == {q[j] : j \in 1..Len(q)}

\* How many times x occurs in the sequence q.
Count(q, x) == Cardinality({j \in 1..Len(q) : q[j] = x})

InputOf(r) == [Path |-> r.Path, RelPath |-> r.RelPath]

\* The rules a run loads from the root .gitignore, and whether loading fails.
LoadedRules ==
  IF opts.IgnoreGitignore THEN <<>> ELSE loadGitignorePatterns(fs.gitignore).patterns

LoadFails ==
  ~opts.IgnoreGitignore /\ loadGitignorePatterns(fs.gitignore).err # NoErr

\* The uncancelled walk from entry i on: the candidates it emits, and how it
\* ends (nil, or the traversal error that aborts it).
RECURSIVE WalkFrom(_)
WalkFrom(i) ==
  IF i > Len(fs.entries) THEN [out |-> <<>>, err |-> NoErr]
  ELSE LET e == fs.entries[i]
           d == WalkDecision(LoadedRules, e)
       IN  IF d = "skipdir" THEN WalkFrom(SkipTo(i))
           ELSE IF d = "err" THEN [out |-> <<>>, err |-> <<"info">>]
           ELSE IF d = "descend" /\ e.fail THEN [out |-> <<>>, err |-> <<"readdir">>]
           ELSE IF d = "emit"
                THEN LET rest == WalkFrom(i + 1)
                     IN  [out |-> <<MakeInput(e)>> \o rest.out, err |-> rest.err]
           ELSE WalkFrom(i + 1)

FullRun ==
  IF LoadFails
  THEN [out |-> <<>>,
        err |-> Wrap("loading gitignore", loadGitignorePatterns(fs.gitignore).err)]
  ELSE WalkFrom(1)

\* The entry at a relative path, and the entries on the way from the root
\* to it (the root and the entry included).
EntrySet == Range(fs.entries)

OnPathTo(e) == {a \in EntrySet : IsPrefix(a.path, e.path)}

\* The four exclusion rules, each on one entry.
HiddenExcluded(e) == ~opts.IncludeHidden /\ HasPrefix(EntryName(e), Dot)

VCSExcluded(e) == e.kind = "dir" /\ EntryName(e) \in VCSNames

GitignoreExcluded(e) ==
  /\ LoadedRules # <<>>
  /\ e.path # <<>>
  /\ \E i \in 1..Len(e.path) :
       MatcherMatch(LoadedRules, SubSeq(e.path, 1, i),
                    e.kind = "dir" /\ i = Len(e.path))

PatternExcluded(e) ==
  /\ ~(opts.IgnoreFilesOnly /\ e.kind = "dir")
  /\ \E k \in 1..Len(opts.IgnorePatterns) :
       Match(opts.IgnorePatterns[k], EntryName(e)).matched

Excluded(e) ==
  HiddenExcluded(e) \/ VCSExcluded(e) \/ GitignoreExcluded(e) \/ PatternExcluded(e)

ExtensionAllowed(e) ==
  opts.Extensions = <<>>
  \/ \E k \in 1..Len(opts.Extensions) :
       LET x == opts.Extensions[k]
       IN  Ext(EntryName(e)) = (IF x[1] = "." THEN x ELSE <<".">> \o x)

\* The regular files that pass every rule, none of whose directories (the
\* root included) is excluded.
Survivors ==
  {e \in EntrySet : /\ e.kind = "file"
                    /\ \A a \in OnPathTo(e) : ~Excluded(a)
                    /\ ExtensionAllowed(e)}

ReturnedRelPaths == {results[j].RelPath : j \in 1..Len(results)}

----------------------------------------------------------------------------
(* Claims *)

\* C1: in a Gather run with no cancellation and no walk error, each candidate
\* the walker emitted was received by exactly one worker, exactly once, and
\* is exactly one FileResult of the returned list with the same Path and
\* RelPath; the list holds no record of a path the walker did not emit.
C1_ExactlyOnce ==
  (gpc = "returned" /\ retErr = NoErr) =>
    /\ \A k \in 1..Len(emitted) :
         /\ Cardinality({i \in Workers : Count(got[i], emitted[k]) > 0}) = 1
         /\ \A i \in Workers : Count(got[i], emitted[k]) <= 1
         /\ Cardinality({j \in 1..Len(results) :
                           InputOf(results[j]) = emitted[k]}) = 1
    /\ \A j \in 1..Len(results) : InputOf(results[j]) \in Range(emitted)

\* C1 witness: a returned run without error in which two workers shared
\* three candidates.
C1_Witness ==
  /\ gpc = "returned"
  /\ retErr = NoErr
  /\ Len(emitted) = 3
  /\ Len(results) = 3
  /\ numWorkers = 2
  /\ \A i \in Workers : got[i] # <<>>

\* C2: the RelPath values Gather returns are exactly those of the regular
\* files that pass the hidden-name test, the VCS pruning, the gitignore
\* matcher, the extra patterns and the extension allow-list, an excluded
\* directory removing its whole subtree and no directory being returned.
C2_ReturnedSetIsSurvivors ==
  (gpc = "returned" /\ retErr = NoErr) =>
    /\ ReturnedRelPaths = {e.path : e \in Survivors}
    /\ Len(results) = Cardinality(Survivors)

\* C2 witness: a returned run where a file that passes every rule itself is
\* left out because one of its directories is excluded, another is returned,
\* and a rule of each kind excluded something.
C2_Witness ==
  /\ gpc = "returned"
  /\ retErr = NoErr
  /\ results # <<>>
  /\ \E e \in EntrySet :
       /\ e.kind = "file" /\ ~Excluded(e) /\ ExtensionAllowed(e)
       /\ e \notin Survivors
  /\ \E e \in EntrySet : GitignoreExcluded(e) /\ ~HiddenExcluded(e)
  /\ \E e \in EntrySet : PatternExcluded(e) /\ ~GitignoreExcluded(e)
  /\ \E e \in EntrySet : e.kind = "file" /\ ~Excluded(e) /\ ~ExtensionAllowed(e)

\* Every stage has returned and the merged stream is closed.
PipelineTerminated ==
  /\ wpc = "done"
  /\ \A i \in Workers : ppc[i] \in {"exited", "cancelled"}
  /\ \A i \in Workers : fpc[i] \in {"exited", "cancelled"}
  /\ outClosed

\* C3: once the cancellation signal is set, the walker, every worker and
\* every forwarding goroutine of merge eventually return and the merged
\* stream is eventually closed, whether or not the consumer keeps draining.
C3_CancelTerminates == done ~> PipelineTerminated

\* C3 witness: the caller cancelled after one candidate of two, the consumer
\* stopped draining with a record in hand, a forwarder gave up its pending
\* send, and every stage has returned.
C3_Witness ==
  /\ cancelAt = 1
  /\ Len(FullRun.out) > 1
  /\ gpc = "append"
  /\ PipelineTerminated
  /\ \E i \in Workers : fpc[i] = "cancelled"

\* The record of a file entry: its content, or its read error with no
\* content.
RecordOf(e) ==
  [Path |-> FullPath(e), RelPath |-> Rel(fs.dirPath, FullPath(e)),
   Content |-> IF e.rerr = NoErr THEN e.content ELSE "", Err |-> e.rerr]

\* The records of the candidates the uncancelled walk emits.
FullRecords ==
  {RecordOf(e) : e \in {x \in EntrySet : MakeInput(x) \in Range(FullRun.out)}}

\* The caller closed done while the walker still had candidates to emit.
CancelledMidWalk == cancelAt # -1 /\ cancelAt < Len(FullRun.out)

\* C4 (as claimed): when cancellation is signalled after k < total candidates
\* were emitted, the walk aborts with a cancellation error, so Gather's
\* error is non-nil and its list is a subset of the full run's records.
C4_CancelMidWalkReportsError ==
  (gpc = "returned" /\ CancelledMidWalk) =>
    /\ retErr # NoErr
    /\ Range(results) \subseteq FullRecords

\* The record of emitted candidate k is with a worker or an output goroutine.
InFlight(r) == \E i \in Workers : pres[i] = r \/ fres[i] = r

C7_MergeAtMostOnce ==
  /\ \A j \in 1..Len(merged) : merged[j] \in Range(mergeIn)
  /\ \A r \in Range(mergeIn) : Count(merged, r) <= Count(mergeIn, r)
  /\ cancelAt = -1 =>
       \A r \in Range(mergeIn) :
         Count(merged, r) + Cardinality({i \in Workers : fres[i] = r})
           = Count(mergeIn, r)
  /\ (cancelAt = -1 /\ outClosed) => Len(merged) = Len(mergeIn)

\* C7 witness: under cancellation merge delivered some of the records it
\* received and gave up another.
C7_Witness ==
  /\ outClosed
  /\ cancelAt # -1
  /\ Len(merged) >= 1
  /\ Len(merged) < Len(mergeIn)

\* The uncancelled walk ends with a traversal error.
TraversalError == FullRun.err \in {<<"info">>, <<"readdir">>}

\* C8: when the walk aborts with a traversal error after k candidates, no
\* further candidate is emitted, the error is sent on the error slot once
\* (and nothing else is), and Gather returns a non-nil error with exactly
\* the k records of the candidates emitted before the error.
C8_TraversalErrorPartial ==
  /\ Len(errSent) <= 1
  /\ (TraversalError /\ wpc \in {"closeErr", "closeOut", "done"}) =>
       /\ errSent = <<FullRun.err>>
       /\ emitted = FullRun.out
  /\ (TraversalError /\ gpc = "returned") =>
       /\ retErr = <<"error walking directory">> \o FullRun.err
       /\ Len(results) = Len(emitted)
       /\ Range(results) = {MakeResult(c) : c \in Range(emitted)}

\* C8 witness: Gather returned after a walk that failed with two candidates
\* emitted.
C8_Witness ==
  /\ gpc = "returned"
  /\ TraversalError
  /\ Len(results) = 2
  /\ retErr # NoErr

\* C9: a read error does not abort the pool: no worker leaves before the
\* candidate stream is closed, and when the walk itself does not fail Gather
\* returns nil with exactly one record per emitted candidate, the failing
\* ones with Err set and no content, the others with their content.
C9_ReadErrorsDoNotAbort ==
  /\ \A i \in Workers : /\ ppc[i] # "cancelled"
                        /\ ppc[i] = "exited" => filesClosed
  /\ (gpc = "returned" /\ FullRun.err = NoErr) =>
       /\ retErr = NoErr
       /\ Len(results) = Len(FullRun.out)
       /\ \A r \in FullRecords : Count(results, r) = 1

\* C9 witness: a run returned nil with a record carrying a read error, and
\* the worker that hit the error took a further candidate afterwards.
C9_Witness ==
  /\ gpc = "returned"
  /\ retErr = NoErr
  /\ \E j \in 1..Len(results) : results[j].Err # NoErr
  /\ \E i \in Workers : \E k \in 1..(Len(got[i]) - 1) :
       MakeResult(got[i][k]).Err # NoErr

\* Every FileResult held anywhere in the pipeline.
Records ==
  ({pres[i] : i \in Workers} \cup {fres[i] : i \in Workers} \cup {grec}
   \cup Range(results) \cup Range(merged) \cup Range(mergeIn)) \ {NoRec}

\* C10: every FileResult, wherever it is held, carries content or an error,
\* never both (Err set means empty Content), and its Path and RelPath are
\* those of the emitted candidate it was made from: it is the record of
\* that file, unchanged since the worker built it.
C10_ContentOrError ==
  \A r \in Records :
    /\ r.Err # NoErr => r.Content = ""
    /\ InputOf(r) \in Range(emitted)
    /\ \E e \in EntrySet : e.kind = "file" /\ r = RecordOf(e)

\* C10 witness: the returned list holds a record with a read error and a
\* record with content.
C10_Witness ==
  /\ gpc = "returned"
  /\ \E j \in 1..Len(results) : results[j].Err = <<"read">> /\ results[j].Content = ""
  /\ \E j \in 1..Len(results) : results[j].Err = NoErr /\ results[j].Content # ""

\* The error Gather returns on an uncancelled run: a function of the tree
\* and the options.
FullError == AggregateError(FullRun.err)

\* C11: the records Gather returns are a function of the tree and the
\* options only: whatever the interleaving and the worker count, a returned
\* run holds exactly the records of the candidates of the full walk (one
\* each) and the error of the full walk; only the order may differ.
C11_ResultSetDetermined ==
  gpc = "returned" =>
    /\ Range(results) = FullRecords
    /\ Len(results) = Cardinality(FullRecords)
    /\ retErr = FullError

\* C11 witness: a run of two workers returned the three records in another
\* order than the walker emitted their candidates.
C11_Witness ==
  /\ gpc = "returned"
  /\ numWorkers = 2
  /\ Len(results) = 3
  /\ \E j \in 1..Len(results) : InputOf(results[j]) # emitted[j]

\* Every stage ran to its end (none gave up on done) and the merged stream
\* is closed.
PipelineExited ==
  /\ wpc = "done"
  /\ \A i \in Workers : ppc[i] = "exited" /\ wClosed[i]
  /\ \A i \in Workers : fpc[i] = "exited"
  /\ outClosed

\* C12: with no cancellation, for every tree and every worker count, Gather
\* eventually returns under fairness, with the walker, every worker and every
\* output goroutine returned and the closer having closed the merged stream:
\* the pipeline cannot deadlock.
C12_GatherTerminates == <>(gpc = "returned" /\ PipelineExited)

\* C12 witness: Gather returned from a run of MaxWorkers workers over three
\* candidates, every stage at its end; no caller cancelled.
C12_Witness ==
  /\ gpc = "returned"
  /\ PipelineExited
  /\ cancelAt = -1
  /\ numWorkers = MaxWorkers
  /\ Len(emitted) = 3

\* The entry of the tree at a relative path, and whether a file passes
\* every test but the gitignore one (its directories included).
EntriesAt(path) == {e \in EntrySet : e.path = path}

PassesOtherRules(e) ==
  /\ e.kind = "file"
  /\ \A a \in OnPathTo(e) : ~HiddenExcluded(a) /\ ~VCSExcluded(a) /\ ~PatternExcluded(a)
  /\ ExtensionAllowed(e)

\* The rules of rules that match the path, by position.
MatchingRules(rules, path, isDir) ==
  {k \in 1..Len(rules) : PatternMatch(rules[k], path, isDir) # "NoMatch"}

\* Some prefix of the path (root to leaf) has, as its last matching rule, a
\* rule that is not a negation.
IgnoredByLastRule(rules, path, isDir) ==
  \E i \in 1..Len(path) :
    LET pre == SubSeq(path, 1, i)
        d   == isDir /\ i = Len(path)
        ms  == MatchingRules(rules, pre, d)
    IN  /\ ms # {}
        /\ ~rules[CHOOSE k \in ms : \A j \in ms : j <= k].inclusion

NegationRules == <<ParsePattern(P_star_log), ParsePattern(L_not_keep)>>

\* C13: with the rules *.log and !keep.log loaded, keep.log is returned
\* (when no other test excludes it) while other.log and sub/deep.log are
\* not; and for every rule set and every entry, shouldIgnore holds exactly
\* when some prefix of the path has a non-negated rule as its last matching
\* rule, no ignored entry being returned.
C13_NegationReincludes ==
  gpc = "returned" =>
    /\ LoadedRules = NegationRules =>
         /\ <<N_other_log>> \notin ReturnedRelPaths
         /\ <<N_sub, N_deep_log>> \notin ReturnedRelPaths
         /\ \A e \in EntriesAt(<<N_keep_log>>) :
              PassesOtherRules(e) => e.path \in ReturnedRelPaths
    /\ \A e \in EntrySet :
         e.path # <<>> =>
           /\ shouldIgnore(LoadedRules, e.path, e.kind = "dir")
                <=> IgnoredByLastRule(LoadedRules, e.path, e.kind = "dir")
           /\ (LoadedRules # <<>>
                 /\ IgnoredByLastRule(LoadedRules, e.path, e.kind = "dir"))
                => e.path \notin ReturnedRelPaths

\* C13 witness: a run with the two rules loaded and no extension list
\* returned keep.log and went through sub without returning deep.log.
C13_Witness ==
  /\ gpc = "returned"
  /\ retErr = NoErr
  /\ LoadedRules = NegationRules
  /\ opts.Extensions = <<>>
  /\ <<N_keep_log>> \in ReturnedRelPaths
  /\ <<N_sub, N_b_go>> \in ReturnedRelPaths
  /\ <<N_sub, N_deep_log>> \notin ReturnedRelPaths

\* The returned paths below the entry named build at the root.
ReturnedBelowBuild ==
  {r \in ReturnedRelPaths : Len(r) > 1 /\ r[1] = N_build}

\* C14: with the rule build/ loaded nothing below a directory build is
\* returned, while a regular file build is (when no other test excludes
\* it); with the rule build loaded neither a file build nor a directory
\* build nor anything below it is returned.
C14_DirOnlyRule ==
  gpc = "returned" =>
    /\ LoadedRules = <<ParsePattern(L_build_dir)>> =>
         /\ ReturnedBelowBuild = {}
         /\ \A e \in EntriesAt(<<N_build>>) :
              PassesOtherRules(e) => e.path \in ReturnedRelPaths
    /\ LoadedRules = <<ParsePattern(L_build)>> =>
         /\ ReturnedBelowBuild = {}
         /\ <<N_build>> \notin ReturnedRelPaths

\* C14 witness: with the rule build/ loaded, a run over the tree where build
\* is a regular file returned it.
C14_Witness ==
  /\ gpc = "returned"
  /\ LoadedRules = <<ParsePattern(L_build_dir)>>
  /\ ParsePattern(L_build_dir).dirOnly
  /\ \E e \in EntriesAt(<<N_build>>) : e.kind = "file"
  /\ <<N_build>> \in ReturnedRelPaths

\* A returned path one of whose segments is a hidden name.
HiddenReturned ==
  {r \in ReturnedRelPaths : \E i \in 1..Len(r) : HasPrefix(r[i], Dot)}

\* A file that passes every test but the hidden-name one.
PassesButHidden(e) ==
  /\ e.kind = "file"
  /\ \A a \in OnPathTo(e) : ~VCSExcluded(a) /\ ~GitignoreExcluded(a) /\ ~PatternExcluded(a)
  /\ ExtensionAllowed(e)

\* C15: with IncludeHidden set, .env at the root is returned when it passes
\* the other tests; with IncludeHidden unset no returned path has a segment
\* starting with a dot: no hidden file is emitted and no hidden directory is
\* descended into, so .cache/keep.txt is absent whatever the other tests say.
C15_HiddenPolicy ==
  gpc = "returned" =>
    /\ (opts.IncludeHidden /\ ~LoadFails) =>
         \A e \in EntriesAt(<<N_env>>) :
           PassesButHidden(e) => e.path \in ReturnedRelPaths
    /\ ~opts.IncludeHidden =>
         /\ HiddenReturned = {}
         /\ <<N_cache, N_keep_txt>> \notin ReturnedRelPaths

\* C15 witness: with IncludeHidden unset a run returned a.go but not
\* .cache/keep.txt, which passes every other test.
C15_Witness ==
  /\ gpc = "returned"
  /\ ~opts.IncludeHidden
  /\ <<N_a_go>> \in ReturnedRelPaths
  /\ \E e \in EntriesAt(<<N_cache, N_keep_txt>>) : PassesButHidden(e)
  /\ <<N_cache, N_keep_txt>> \notin ReturnedRelPaths

\* A file none of whose directories is excluded and that passes every test
\* but the extension one.
PassesButExtension(e) ==
  /\ e.kind = "file"
  /\ \A a \in OnPathTo(e) : ~Excluded(a)

\* C16: in a run whose walk does not fail, a regular file that passes the
\* other tests is returned iff the allow-list is empty or the extension of
\* its base name equals some entry, a dot added to entries lacking one and
\* letters compared as they are (.GO allows no .go file); directories are
\* not extension-filtered: the list [".go"] on the tree a.go, a.mod,
\* sub/b.go returns exactly a.go and sub/b.go.
C16_ExtensionAllowList ==
  (gpc = "returned" /\ retErr = NoErr) =>
    /\ \A e \in EntrySet :
         PassesButExtension(e) =>
           (e.path \in ReturnedRelPaths <=> ExtensionAllowed(e))
    /\ opts.Extensions = <<X_dot_GO>> => ReturnedRelPaths = {}
    /\ (fs = ExtTree /\ opts.Extensions = <<X_dot_go>>) =>
         ReturnedRelPaths = {<<N_a_go>>, <<N_sub, N_b_go>>}

\* C16 witness: the list [".go"] on the tree a.go, a.mod, sub/b.go returned
\* two records.
C16_Witness ==
  /\ gpc = "returned"
  /\ retErr = NoErr
  /\ fs = ExtTree
  /\ opts.Extensions = <<X_dot_go>>
  /\ Len(results) = 2
  /\ <<N_sub, N_b_go>> \in ReturnedRelPaths

\* Gather's error says that loading .gitignore failed.
LoadErrorReturned ==
  Len(retErr) = 3 /\ retErr[1] = "error walking directory"
                  /\ retErr[2] = "loading gitignore"

\* C17: a missing .gitignore is no error: the walk runs with no rule and
\* Gather's error is that of the traversal, nil when the traversal does not
\* fail.  Any other failure to read .gitignore makes the walker emit nothing
\* and send one error: Gather returns an empty list and a non-nil error.
\* With IgnoreGitignore set no rule is loaded and no failure of .gitignore
\* is reported.
C17_GitignoreLoad ==
  /\ LoadFails => emitted = <<>>
  /\ gpc = "returned" =>
       /\ fs.gitignore.state = "missing" =>
            /\ LoadedRules = <<>>
            /\ retErr = AggregateError(WalkFrom(1).err)
            /\ ~TraversalError => retErr = NoErr
       /\ (fs.gitignore.state \in {"unreadable", "scanfail"} /\ ~opts.IgnoreGitignore) =>
            /\ results = <<>>
            /\ Len(errSent) = 1
            /\ LoadErrorReturned
       /\ opts.IgnoreGitignore =>
            /\ matcher = <<>>
            /\ ~LoadErrorReturned
            /\ retErr = AggregateError(WalkFrom(1).err)

\* C17 witness: .gitignore failed while being scanned and Gather returned
\* nothing but the error, over a tree that holds a.go.
C17_Witness ==
  /\ gpc = "returned"
  /\ fs.gitignore.state = "scanfail"
  /\ ~opts.IgnoreGitignore
  /\ EntriesAt(<<N_a_go>>) # {}
  /\ results = <<>>
  /\ retErr = <<"error walking directory", "loading gitignore", "scan">>

\* The names of version-control directories, and whether a relative path
\* lies below a directory of such a name.
VCSDirNames == {N_git, N_hg, N_svn}

BelowVCSDir(r) == \E i \in 1..(Len(r) - 1) : r[i] \in VCSDirNames

\* C18: whatever the options, no candidate is emitted and no record is
\* returned for a path below a directory named .git, .svn or .hg: such a
\* directory is never descended into.
C18_VCSNeverDescended ==
  /\ \A k \in 1..Len(emitted) : ~BelowVCSDir(emitted[k].RelPath)
  /\ \A r \in ReturnedRelPaths : ~BelowVCSDir(r)

\* C18 witness: with hidden names included, no .gitignore read, no pattern
\* and no extension list, a run returned a.go and the regular file .git but
\* not .hg/config.
C18_Witness ==
  /\ gpc = "returned"
  /\ fs = VcsTree
  /\ opts.IncludeHidden /\ opts.IgnoreGitignore
  /\ opts.Extensions = <<>> /\ opts.IgnorePatterns = <<>>
  /\ ReturnedRelPaths = {<<N_git>>, <<N_a_go>>}

\* Some extra pattern matches the base name.
NameMatchesPattern(name) ==
  \E k \in 1..Len(opts.IgnorePatterns) : Match(opts.IgnorePatterns[k], name).matched

\* A file that passes the hidden, VCS, gitignore and extension tests, its
\* directories the first three.
PassesButPatterns(e) ==
  /\ e.kind = "file"
  /\ \A a \in OnPathTo(e) : ~HiddenExcluded(a) /\ ~VCSExcluded(a) /\ ~GitignoreExcluded(a)
  /\ ExtensionAllowed(e)

\* C19: the extra patterns are globs on the base name, whatever the
\* gitignore rules say: no returned file has a base name that matches one;
\* in a run whose walk does not fail a file that passes the other tests is
\* returned iff its name matches no pattern and, unless IgnoreFilesOnly is
\* set, no directory above it has a matching name.  With the pattern build
\* on the tree build/build, build/out.go, keep.log, sub/build, only keep.log
\* is returned, and with IgnoreFilesOnly build/out.go too.
C19_ExtraPatterns ==
  gpc = "returned" =>
    /\ \A r \in ReturnedRelPaths : ~NameMatchesPattern(Last(r))
    /\ retErr = NoErr =>
         \A e \in EntrySet :
           PassesButPatterns(e) =>
             (e.path \in ReturnedRelPaths
                <=> /\ ~NameMatchesPattern(EntryName(e))
                    /\ \/ opts.IgnoreFilesOnly
                       \/ \A a \in OnPathTo(e) : ~NameMatchesPattern(EntryName(a)))
    /\ (fs = PatTree /\ opts.IgnorePatterns = <<N_build>> /\ opts.Extensions = <<>>) =>
         ReturnedRelPaths =
           IF opts.IgnoreFilesOnly THEN {<<N_build, N_out_go>>, <<N_keep_log>>}
           ELSE {<<N_keep_log>>}

\* C19 witness: with the pattern build and IgnoreFilesOnly the directory
\* build was descended into: build/out.go is returned, build/build and
\* sub/build are not.
C19_Witness ==
  /\ gpc = "returned"
  /\ fs = PatTree
  /\ opts.IgnorePatterns = <<N_build>>
  /\ opts.IgnoreFilesOnly
  /\ ReturnedRelPaths = {<<N_build, N_out_go>>, <<N_keep_log>>}

\* The message x is part of the error Gather returned or of the Err of a
\* returned record.
Reported(x) ==
  \/ x \in Range(retErr)
  \/ \E j \in 1..Len(results) : x \in Range(results[j].Err)

\* The errors filepath.Match returned while the walker tested the entry e
\* against every extra pattern (e was emitted: no pattern matched it, so
\* each was tried).
PatternErrors(e) ==
  {Match(opts.IgnorePatterns[k], EntryName(e)).err :
     k \in 1..Len(opts.IgnorePatterns)} \ {NoErr}

\* The errors of loading .gitignore, of the traversal and of reading files
\* reach the caller: the first two in Gather's error, the last in the Err of
\* the file's record.
WalkAndReadErrorsReported ==
  /\ FullRun.err # NoErr => retErr = Wrap("error walking directory", FullRun.err)
  /\ \A k \in 1..Len(emitted) :
       LET r == readFileContent(emitted[k].Path)
       IN  r.err # NoErr =>
             \E j \in 1..Len(results) :
               InputOf(results[j]) = emitted[k] /\ results[j].Err = r.err

\* C20 (as claimed): every error that arises in a run without cancellation
\* reaches the caller, in Gather's error or in the Err of a record; in
\* particular the error filepath.Match returns for a malformed extra pattern
\* is reported.
C20_AllErrorsReported ==
  gpc = "returned" =>
    /\ WalkAndReadErrorsReported
    /\ \A e \in EntrySet :
         e.path \in ReturnedRelPaths =>
           \A x \in PatternErrors(e) : \A i \in 1..Len(x) : Reported(x[i])

\* C21 (as claimed): once the cancellation signal is set, no worker receives
\* a further candidate from the walker and no output goroutine of merge
\* receives a further record from a worker stream.
C21_NoReceiveAfterCancel ==
  [][done => (emitted' = emitted /\ got' = got /\ mergeIn' = mergeIn)]_vars

\* The candidates handed to a worker whose record is not yet in Gather's
\* list, and the stages that hold a record.
HandedOffPending == Len(emitted) - Len(results)

HeldRecords ==
  Cardinality({i \in Workers : pres[i] # NoRec})
  + Cardinality({i \in Workers : fres[i] # NoRec})
  + (IF grec # NoRec THEN 1 ELSE 0)

\* C22 (as claimed): at most N handed-off candidates are not yet in the
\* collected list.
C22_AtMostOnePerWorker == HandedOffPending <= numWorkers

\* C22 (amended): every handed-off candidate not yet in the list is held by
\* exactly one stage, and a worker, an output goroutine of merge and
\* Gather's loop each hold at most one: at most 2N + 1 are pending.
C22_PendingBounded ==
  /\ HandedOffPending = HeldRecords
  /\ HandedOffPending <= 2 * numWorkers + 1

\* C22 witness: with one worker three candidates are pending: one record in
\* Gather's hand, one with the output goroutine, one with the worker.
C22_Witness ==
  /\ numWorkers = 1
  /\ HandedOffPending = 3
  /\ grec # NoRec /\ fres[1] # NoRec /\ pres[1] # NoRec

\* C23: in a Gather run done is closed exactly when Gather has returned, and
\* by then resultsCh was drained to its close and walkErrCh was read with
\* every stage at its end.  So no stage takes a done case: the walker never
\* reports "walk cancelled", no worker and no output goroutine gives up a
\* record, and what was emitted is what was merged and returned.
C23_DoneOnlyAtReturn ==
  /\ done <=> gpc = "returned"
  /\ done => PipelineExited /\ errClosed
  /\ \A i \in Workers : ppc[i] # "cancelled" /\ fpc[i] # "cancelled"
  /\ \A k \in 1..Len(errSent) : "walk cancelled" \notin Range(errSent[k])
  /\ "walk cancelled" \notin Range(retErr)
  /\ outClosed => Len(merged) = Len(emitted)
  /\ gpc = "returned" => Len(results) = Len(emitted)

\* C23 witness: Gather returned from a walk that failed after two
\* candidates: done is closed, the error sent is the traversal's, and both
\* records are in the list.
C23_Witness ==
  /\ gpc = "returned"
  /\ done
  /\ errSent = <<<<"readdir">>>> \/ errSent = <<<<"info">>>>
  /\ Len(emitted) = 2
  /\ Len(results) = 2

\* The uncancelled walk fails: loading .gitignore or the traversal.
WalkFails == FullRun.err # NoErr

\* C24: the walker sends at most one error, and errCh is written and closed
\* before the candidate stream is closed.  So once Gather has seen resultsCh
\* closed, errCh is closed and holds the walk's error iff the walk failed:
\* the receive from walkErrCh does not block and yields that error or nil.
C24_ErrorSlotReadyAtDrain ==
  /\ Len(errSent) <= 1
  /\ filesClosed => errClosed
  /\ errClosed => errSent = (IF WalkFails THEN <<FullRun.err>> ELSE <<>>)
  /\ outClosed => errClosed
  /\ gpc = "errwait" => errCh = (IF WalkFails THEN <<FullRun.err>> ELSE <<>>)
  /\ gpc = "returned" => retErr = AggregateError(FullRun.err)

\* C24 witness: Gather has collected two records and seen resultsCh closed
\* after a traversal error, and is about to read walkErrCh, which is closed
\* and holds the error.
C24_Witness ==
  /\ gpc = "errwait"
  /\ errClosed
  /\ WalkFails
  /\ TraversalError
  /\ Len(results) = 2
  /\ errCh = <<FullRun.err>>

\* A goroutine that is about to send: the walker on filesCh (or on errCh,
\* which it may do from any point before its return), worker i on its out,
\* output goroutine i on merge's out.
WalkerRunning == wpc \in {"load", "walk", "emit"}

\* Each channel is closed exactly when the goroutine that owns it has passed
\* its close, which follows its last send.
ClosedByOwner ==
  /\ errClosed <=> wpc \in {"closeOut", "done"}
  /\ filesClosed <=> wpc = "done"
  /\ \A i \in Workers : wClosed[i] <=> ppc[i] \in {"exited", "cancelled"}
  /\ outClosed => \A i \in Workers : fpc[i] \in {"exited", "cancelled"}

\* No goroutine that may still send has its channel closed.
NoSendOnClosed ==
  /\ WalkerRunning => ~errClosed /\ ~filesClosed
  /\ \A i \in Workers : ppc[i] = "send" => ~wClosed[i]
  /\ \A i \in Workers : fpc[i] = "send" => ~outClosed

\* A goroutine past its close does nothing more, and a closed channel stays
\* closed: no close happens twice.
ClosedOnce ==
  /\ wpc = "done" => wpc' = "done"
  /\ errClosed => errClosed' /\ Len(errCh') <= Len(errCh)
  /\ filesClosed => filesClosed'
  /\ outClosed => outClosed' /\ fpc' = fpc
  /\ \A i \in Workers : wClosed[i] => wClosed'[i] /\ ppc'[i] = ppc[i]

\* C25: with or without cancellation, no goroutine sends on a closed channel
\* and no channel is closed twice: merge's out is closed once, after every
\* output goroutine returned; each worker's out once, by its worker after
\* its last send; filesCh and errCh by the walker only.
C25_ChannelDiscipline ==
  /\ [](ClosedByOwner /\ NoSendOnClosed)
  /\ [][ClosedOnce]_vars

\* C25 witness: under cancellation merge's out is closed, an output
\* goroutine having given up its send, while the walker still runs and a
\* worker still holds a record.
C25_Witness ==
  /\ outClosed
  /\ cancelAt # -1
  /\ WalkerRunning
  /\ \E i \in Workers : fpc[i] = "cancelled" /\ ppc[i] = "send" /\ ~wClosed[i]

\* The base name of the root, and the tests the walker applies to it.
RootName == Last(fs.dirPath)

RootHidden == ~opts.IncludeHidden /\ HasPrefix(RootName, Dot)

RootIsVCS == RootName \in VCSDirNames

RootMatchesPattern == ~opts.IgnoreFilesOnly /\ NameMatchesPattern(RootName)

\* Some rule loaded from .gitignore matches the root's base name.
RootMatchesRule ==
  \E k \in 1..Len(LoadedRules) : Match(LoadedRules[k].pattern, RootName).matched

\* C26 (as claimed): when the root is hidden under IncludeHidden unset, or
\* its base name matches an extra pattern with IgnoreFilesOnly unset, Gather
\* returns an empty list with a nil error.
C26_RootPrunedNilError ==
  (gpc = "returned" /\ (RootHidden \/ RootMatchesPattern)) =>
    results = <<>> /\ retErr = NoErr

\* C26 (amended): the hidden-name, VCS-name and extra-pattern tests apply to
\* the root: when one of them excludes it nothing is emitted and the list is
\* empty, the error being nil unless loading .gitignore failed before the
\* walk.  The gitignore matcher skips the root: a rule that matches only the
\* root's name excludes nothing.
C26_RootTested ==
  gpc = "returned" =>
    /\ (RootHidden \/ RootIsVCS \/ RootMatchesPattern) =>
         /\ emitted = <<>>
         /\ results = <<>>
         /\ retErr = (IF LoadFails THEN AggregateError(FullRun.err) ELSE NoErr)
    /\ (fs = BuildRootTree /\ RootMatchesRule /\ opts.IncludeHidden
          /\ opts.IgnorePatterns = <<>> /\ opts.Extensions = <<>>) =>
         ReturnedRelPaths = {<<N_gitignore>>, <<N_a_go>>}

\* C26 witness: Gather on "." with IncludeHidden unset returned an empty list
\* and nil over a tree whose a.go passes every other test.
C26_Witness ==
  /\ gpc = "returned"
  /\ fs.dirPath = <<Dot>>
  /\ RootHidden
  /\ ~LoadFails
  /\ \E e \in EntriesAt(<<N_a_go>>) : PassesButHidden(e)
  /\ results = <<>>
  /\ retErr = NoErr

\* The error-free records of the slice Combine was called with, in order.
OkRecords == SelectSeq(cresults, LAMBDA r : r.Err = NoErr)

\* How many of the first n records are error-free.
OkBefore(n) == Cardinality({j \in 1..n : cresults[j].Err = NoErr})

IsDocumentOpen(w) == Head(w) = "<document index=\""

IsSourceLine(w) == Head(w) = "<source>"

\* C27: the XML format skips every record whose Err is set and numbers the
\* documents of the k error-free records 1..k in list order, an error record
\* taking no index; the markdown format writes one block per error-free
\* record, in list order, and nothing for an error record.
C27_ErrorRecordsSkipped ==
  LET ok == OkRecords
      k  == Len(ok)
  IN  /\ cpc = "xml" => index = OkBefore(ci - 1) + 1 /\ Len(file) = 6 * OkBefore(ci - 1) + 1
      /\ cpc = "markdown" => Len(file) = 4 * OkBefore(ci - 1)
      /\ (cpc = "returned" /\ cerr = NoErr /\ copts.Format = "xml") =>
           /\ Len(file) = 6 * k + 2
           /\ SelectSeq(file, IsDocumentOpen) = [j \in 1..k |-> DocumentOpen(j)]
           /\ SelectSeq(file, IsSourceLine) = [j \in 1..k |-> SourceLine(ok[j].RelPath)]
           /\ \A j \in 1..k :
                SubSeq(file, 6 * j - 4, 6 * j + 1)
                  = DocumentWrites(ok[j], j, copts.LineNumbers)
      /\ (cpc = "returned" /\ cerr = NoErr /\ copts.Format # "xml") =>
           /\ Len(file) = 4 * k
           /\ \A j \in 1..k :
                SubSeq(file, 4 * j - 3, 4 * j)
                  = MarkdownWrites(ok[j], copts.LineNumbers)

\* C27 witness: Combine in XML format returned for a slice whose second
\* record carries an error; the third record is document 2.
C27_Witness ==
  /\ cpc = "returned"
  /\ cerr = NoErr
  /\ copts.Format = "xml"
  /\ cresults = <<R_a_go, R_c_go, R_b_go>>
  /\ Len(file) = 14
  /\ file[8] = DocumentOpen(2)
  /\ file[9] = SourceLine(R_b_go.RelPath)

====
